---- MODULE Spec2Model ----
(***************************************************************************)
(* Model of the publish/subscribe core of ikkuna:                          *)
(*   ikkuna/export/subscriber/subscriber.py  ModuleData, Subscription,     *)
(*                                           SynchronizedSubscription,     *)
(*                                           Subscriber                    *)
(*   ikkuna/export/export.py                 Exporter                      *)
(*                                                                         *)
(* The specifications of the module:                                       *)
(*   SpecBundle     one ModuleData object driven through add_message       *)
(*   Spec           one SynchronizedSubscription driven through __call__   *)
(*                  with arbitrary messages                                *)
(*   SpecBase       one base Subscription driven the same way              *)
(*   SpecSubsample  a subscriber that constructs its                       *)
(*                  SynchronizedSubscription with or without a subsample   *)
(*                  factor and is then sent arbitrary messages             *)
(*   SpecSubscriber a SynchronizedSubscription whose subscriber is also    *)
(*                  called directly with arbitrary bundles                 *)
(*   SpecRatio      RatioSubscriber objects constructed next to an         *)
(*                  Exporter that publishes to its subscriptions           *)
(*   SpecFanout     an Exporter some of whose subscriptions raise when     *)
(*                  they are called                                        *)
(*   SpecExporter   one Exporter driven through its methods and the hooks  *)
(*                  of its tracked modules; its subscriptions record the   *)
(*                  calls they receive                                     *)
(*                                                                         *)
(*   SpecSteps      the Exporter's step and epoch counters: the forward    *)
(*                  pass of the instrumented model, hooks, step,           *)
(*                  epoch_finished, train and direct exports               *)
(*   SpecLabels     the Exporter's label registry: registrations, label    *)
(*                  lookups and publishes                                  *)
(*                                                                         *)
(* Not modelled: ModuleData._seq (a creation counter nothing reads), the   *)
(* recursion of add_modules into a Sequential (a sequence of the two       *)
(* add_modules forms modelled).                                            *)
(*                                                                         *)
(* Python values: an optional value is None (the empty tuple) or Some(v)   *)
(* (a 1-tuple).  A Python str is the tuple of its characters, so that      *)
(* iterating a str yields its one-character strings as Python does.        *)
(***************************************************************************)
EXTENDS Integers, Sequences, FiniteSets, TLC

\* ------------------------------------------------------------------ bounds
\* calls made on the object under test in one behaviour
MaxCalls == 3
\* largest subsample factor a subscriber asks for
MaxSubsample == 2
\* operations made on the Exporter in one behaviour
MaxOps == 5

\* ------------------------------------------------------------ Python values
None == <<>>
Some(v) == <<v>>

\* `not x` for x an int or None: None and 0 are falsy
Falsy(x) == x = None \/ x = Some(0)

\* iterating a list yields its items
IterList(l) == {l[i] : i \in DOMAIN l}

\* iterating a str yields its one-character strings
IterStr(s) == {<<s[i]>> : i \in DOMAIN s}

\* outcome of a call that returned normally
NoError == "none"

\* message kinds (Python str values, as tuples of characters): the kinds the
\* Exporter publishes for a forward and a backward hook (export.py:232, 254)
Activations == <<"a", "c", "t", "i", "v", "a", "t", "i", "o", "n", "s">>
Gradients == <<"g", "r", "a", "d", "i", "e", "n", "t", "s">>

KindNames == {Activations, Gradients}
Modules == {"L1", "L2"}
Seqs == {1, 2}
Steps == {0, 1}
Epochs == {0, 1}
Payloads == {1, 2}
Tags == {None, Some("t1"), Some("t2")}

\* NetworkData(seq, tag, kind, module, step, epoch, payload): the messages fed
\* to a subscription
NetworkData == [seq : Seqs, tag : Tags, kind : KindNames, module : Modules,
                step : Steps, epoch : {0}, payload : {Some(1)}]

\* the messages added to a ModuleData object directly
BundleData == [seq : {1}, tag : {None}, kind : KindNames, module : Modules,
               step : Steps, epoch : Epochs, payload : {Some(p) : p \in Payloads}]

\* ---------------------------------------------------------------- ModuleData

\* ModuleData.__init__: one entry per item the iteration of `kinds` yields
ModuleData(module, kinds) ==
    [module |-> module, data |-> [k \in kinds |-> None], step |-> None, epoch |-> None]

completeAny(b) == \E k \in DOMAIN b.data : b.data[k] # None

\* ModuleData.complete
complete(b) == \A k \in DOMAIN b.data : b.data[k] # None

\* ModuleData._check_step: returns the bundle as mutated and the error raised
_check_step(b, step) ==
    LET b1 == IF Falsy(b.step) THEN [b EXCEPT !.step = Some(step)] ELSE b
    IN  IF Some(step) # b1.step
        THEN [b |-> b1, err |-> "ValueError: step"]
        ELSE [b |-> b1, err |-> NoError]

\* ModuleData._check_epoch
_check_epoch(b, epoch) ==
    LET b1 == IF Falsy(b.epoch) THEN [b EXCEPT !.epoch = Some(epoch)] ELSE b
    IN  IF Some(epoch) # b1.epoch
        THEN [b |-> b1, err |-> "ValueError: epoch"]
        ELSE [b |-> b1, err |-> NoError]

\* the final store of add_message
storePayload(b, m) == [b EXCEPT !.data[m.kind] = m.payload]

add_messageOverwrite(b, m) ==
    LET r1 == _check_step(b, m.step)
        r2 == _check_epoch(r1.b, m.epoch)
    IN  IF r1.err # NoError THEN r1
        ELSE IF r2.err # NoError THEN r2
        ELSE IF r2.b.module # m.module THEN [b |-> r2.b, err |-> "ValueError: module"]
        ELSE IF m.kind \notin DOMAIN r2.b.data THEN [b |-> r2.b, err |-> "KeyError"]
        ELSE [b |-> storePayload(r2.b, m), err |-> NoError]

\* ModuleData.add_message: returns the bundle as mutated and the error raised
add_message(b, m) ==
    LET r1 == _check_step(b, m.step)
        r2 == _check_epoch(r1.b, m.epoch)
    IN  IF r1.err # NoError THEN r1
        ELSE IF r2.err # NoError THEN r2
        ELSE IF r2.b.module # m.module THEN [b |-> r2.b, err |-> "ValueError: module"]
        ELSE IF m.kind \notin DOMAIN r2.b.data THEN [b |-> r2.b, err |-> "KeyError"]
        ELSE IF r2.b.data[m.kind] # None THEN [b |-> r2.b, err |-> "ValueError: duplicate"]
        ELSE [b |-> storePayload(r2.b, m), err |-> NoError]

IsValueError(e) ==
    e \in {"ValueError: step", "ValueError: epoch", "ValueError: module",
           "ValueError: duplicate", "ValueError: not yet complete",
           "ValueError: not complete"}

\* ---------------------------------------------------------------- Subscriber

Subscriber__call__CountFirst(cnt, data) ==
    LET c == [cnt EXCEPT ![data.module] = @ + 1]
    IN  IF ~complete(data)
        THEN [counter |-> c, err |-> "ValueError: not complete"]
        ELSE [counter |-> c, err |-> NoError]

\* Subscriber.__call__ (the base implementation every subclass calls first)
Subscriber__call__(cnt, data) ==
    IF ~complete(data)
    THEN [counter |-> cnt, err |-> "ValueError: not complete"]
    ELSE [counter |-> [cnt EXCEPT ![data.module] = @ + 1], err |-> NoError]

\* -------------------------------------------------------------- Subscription
VARIABLES
    sub,            \* the Subscription object: cls, _tag, _kinds, _current_seq, _modules, _step
    counter,        \* Subscriber._counter of the subscription's subscriber
    subsample,      \* the subsample argument the subscribers pass to the constructor
    msg,            \* the argument of the last call
    err,            \* the exception the last call raised, or NoError
    forwarded,      \* whether the last call reached _new_message
    delivered,      \* the bundles handed to the subscriber by the last call, in order
    calls,          \* number of calls made
    occurrence,     \* per (module, kind): number of messages that passed the filters
    roundAccepted,  \* (module, kind) pairs stored since the current round was opened
    roundDelivered, \* modules delivered since the current round was opened
    bundleSeqs,     \* per key: the seq of every message its buffered bundle received
    bundle          \* SpecBundle: the ModuleData object under test

\* the Exporter and its surroundings
VARIABLES
    exporter,   \* the Exporter object: the fields set by Exporter.__init__
    weight,     \* module.weight of the module objects that have one
    bias,       \* module.bias of the module objects whose bias is not None
    inbox,      \* per subscription: the messages it was called with by the last operation
    notified,   \* per subscription: the epochs epoch_finished was called with by the last operation
    exported,   \* the export(kind, module, data) calls of the last operation, in order
    op,         \* the last operation and its arguments
    eerr,       \* the exception the last operation raised, or NoError
    ops,        \* number of operations made
    ret,        \* what the last operation returned, if it returns a value
    raising,    \* the subscriptions whose call raises
    autoLabeled \* the modules registered under a label get_or_make_label made

subVars == <<sub, counter, subsample, msg, err, forwarded, delivered, calls,
             occurrence, roundAccepted, roundDelivered, bundleSeqs, bundle>>
expVars == <<exporter, weight, bias, inbox, notified, exported, op, eerr, ops, ret,
             raising, autoLabeled>>

\* the exporter's variables where no Exporter is under test
NoExporter ==
    /\ exporter = None
    /\ weight = <<>>
    /\ bias = <<>>
    /\ inbox = <<>>
    /\ notified = <<>>
    /\ exported = <<>>
    /\ op = None
    /\ eerr = NoError
    /\ ops = 0
    /\ ret = None
    /\ raising = {}
    /\ autoLabeled = {}

\* the subscription's and the bundle's variables where neither is under test
NoSubscription ==
    /\ sub = None
    /\ counter = <<>>
    /\ subsample = 1
    /\ msg = None
    /\ err = NoError
    /\ forwarded = FALSE
    /\ delivered = <<>>
    /\ calls = 0
    /\ occurrence = <<>>
    /\ roundAccepted = {}
    /\ roundDelivered = {}
    /\ bundleSeqs = [K \in Modules |-> {}]
    /\ bundle = None

\* position of the bundle for `module` in the insertion-ordered dict, 0 if absent
indexOf(mods, module) ==
    IF \E i \in DOMAIN mods : mods[i].module = module
    THEN CHOOSE i \in DOMAIN mods : mods[i].module = module
    ELSE 0

\* Subscription._new_message
Subscription_new_message(self, cnt, m) ==
    LET data == ModuleData(m.module, IterStr(m.kind))
        r    == add_message(data, m)
        c    == Subscriber__call__(cnt, r.b)
    IN  IF r.err # NoError
        THEN [self |-> self, counter |-> cnt, err |-> r.err, delivered |-> <<>>,
              opened |-> FALSE, stored |-> FALSE]
        ELSE [self |-> self, counter |-> c.counter, err |-> c.err,
              delivered |-> IF c.err = NoError THEN <<r.b>> ELSE <<>>,
              opened |-> FALSE, stored |-> TRUE]

_new_roundNoCheck(self, seq) ==
    [self |-> [self EXCEPT !._current_seq = Some(seq), !._modules = <<>>], err |-> NoError]

_new_roundKeepBuffer(self, seq) ==
    [self |-> [self EXCEPT !._current_seq = Some(seq)], err |-> NoError]

_new_roundSeqFirst(self, seq) ==
    IF \E i \in DOMAIN self._modules : ~complete(self._modules[i])
    THEN [self |-> [self EXCEPT !._current_seq = Some(seq)],
          err |-> "ValueError: not yet complete"]
    ELSE [self |-> [self EXCEPT !._current_seq = Some(seq), !._modules = <<>>],
          err |-> NoError]

\* SynchronizedSubscription._new_round
_new_round(self, seq) ==
    IF \E i \in DOMAIN self._modules : ~complete(self._modules[i])
    THEN [self |-> self, err |-> "ValueError: not yet complete"]
    ELSE [self |-> [self EXCEPT !._current_seq = Some(seq), !._modules = <<>>],
          err |-> NoError]

publishLoopWhenAllComplete(mods, i, acc) ==
    IF \E j \in DOMAIN mods : ~complete(mods[j])
    THEN acc
    ELSE [acc EXCEPT !.counter = [K \in DOMAIN @ |->
                                    @[K] + Cardinality({j \in DOMAIN mods : mods[j].module = K})],
                     !.delivered = mods,
                     !.delete_these = [j \in DOMAIN mods |-> mods[j].module]]

\* the publish loop of SynchronizedSubscription._new_message (lines 249-254):
\* walks the dict in insertion order; an exception of the subscriber ends it
RECURSIVE publishLoop(_, _, _)
publishLoop(mods, i, acc) ==
    IF i > Len(mods) THEN acc
    ELSE IF ~complete(mods[i]) THEN publishLoop(mods, i + 1, acc)
    ELSE LET c == Subscriber__call__(acc.counter, mods[i])
         IN  IF c.err # NoError
             THEN [acc EXCEPT !.err = c.err]
             ELSE publishLoop(mods, i + 1,
                              [acc EXCEPT !.counter = c.counter,
                                          !.delivered = Append(@, mods[i]),
                                          !.delete_these = Append(@, mods[i].module)])

deleteNone(mods, delete_these) == mods

\* the deletion loop of SynchronizedSubscription._new_message (lines 256-257)
deleteThese(mods, delete_these) ==
    SelectSeq(mods, LAMBDA b : b.module \notin IterList(delete_these))

\* SynchronizedSubscription._new_message
SynchronizedSubscription_new_message(self, cnt, m) ==
    LET newRound == self._current_seq = None \/ self._current_seq # Some(m.seq)
        r0    == IF newRound THEN _new_round(self, m.seq) ELSE [self |-> self, err |-> NoError]
        s1    == r0.self
        mods1 == IF indexOf(s1._modules, m.module) = 0
                 THEN Append(s1._modules, ModuleData(m.module, IterList(s1._kinds)))
                 ELSE s1._modules
        i     == indexOf(mods1, m.module)
        ra    == add_message(mods1[i], m)
        mods2 == [mods1 EXCEPT ![i] = ra.b]
        pl    == publishLoop(mods2, 1, [counter |-> cnt, delivered |-> <<>>,
                                        delete_these |-> <<>>, err |-> NoError])
        kept  == deleteThese(mods2, pl.delete_these)
    IN  IF r0.err # NoError
        THEN [self |-> r0.self, counter |-> cnt, err |-> r0.err, delivered |-> <<>>,
              opened |-> FALSE, stored |-> FALSE]
        ELSE IF ra.err # NoError
        THEN [self |-> [s1 EXCEPT !._modules = mods2], counter |-> cnt, err |-> ra.err,
              delivered |-> <<>>, opened |-> newRound, stored |-> FALSE]
        ELSE IF pl.err # NoError
        THEN [self |-> [s1 EXCEPT !._modules = mods2], counter |-> pl.counter,
              err |-> pl.err, delivered |-> pl.delivered, opened |-> newRound,
              stored |-> TRUE]
        ELSE [self |-> [s1 EXCEPT !._modules = kept], counter |-> pl.counter,
              err |-> NoError, delivered |-> pl.delivered, opened |-> newRound,
              stored |-> TRUE]

\* dynamic dispatch of self._new_message
_new_message(self, cnt, m) ==
    IF self.cls = "SynchronizedSubscription"
    THEN SynchronizedSubscription_new_message(self, cnt, m)
    ELSE Subscription_new_message(self, cnt, m)

\* the kind filter of Subscription.__call__ (line 198)
kindWanted(self, m) == m.kind \in IterList(self._kinds)

\* the tag filter of Subscription.__call__ (line 201)
tagPasses(self, m) == self._tag = None \/ self._tag = m.tag

Subscription__call__RoundFirst(self, cnt, m) ==
    LET newRound == /\ self.cls = "SynchronizedSubscription"
                    /\ (self._current_seq = None \/ self._current_seq # Some(m.seq))
        r0 == IF newRound THEN _new_round(self, m.seq) ELSE [self |-> self, err |-> NoError]
    IN  IF r0.err # NoError
        THEN [self |-> self, counter |-> cnt, err |-> r0.err, delivered |-> <<>>,
              opened |-> FALSE, stored |-> FALSE, forwarded |-> FALSE]
        ELSE IF ~kindWanted(self, m) \/ ~tagPasses(self, m)
        THEN [self |-> r0.self, counter |-> cnt, err |-> NoError, delivered |-> <<>>,
              opened |-> newRound, stored |-> FALSE, forwarded |-> FALSE]
        ELSE [f \in {"forwarded"} |-> TRUE] @@ _new_message(r0.self, cnt, m)

\* Subscription.__call__
Subscription__call__(self, cnt, m) ==
    IF ~kindWanted(self, m) \/ ~tagPasses(self, m)
    THEN [self |-> self, counter |-> cnt, err |-> NoError, delivered |-> <<>>,
          opened |-> FALSE, stored |-> FALSE, forwarded |-> FALSE]
    ELSE [f \in {"forwarded"} |-> TRUE] @@ _new_message(self, cnt, m)

\* the kinds lists subscriptions are constructed with
KindLists == {<<Gradients>>, <<Activations, Gradients>>}

\* Subscription.__init__ / SynchronizedSubscription.__init__
NewSubscription(cls, kinds, tag) ==
    [cls |-> cls, _tag |-> tag, _kinds |-> kinds,
     _current_seq |-> None, _modules |-> <<>>, _step |-> None]

\* a call SynchronizedSubscription(*args): __init__(self, subscriber, kinds,
\* tag=None) takes two or three arguments
SynchronizedSubscriptionCall(args) ==
    IF Len(args) \notin 2..3
    THEN [err |-> "TypeError", subscription |-> None]
    ELSE [err |-> NoError,
          subscription |-> Some(NewSubscription("SynchronizedSubscription", args[2],
                                                IF Len(args) = 3 THEN args[3] ELSE None))]

vars == <<subVars, expVars>>

InitWith(classes, factors) ==
    /\ \E cls \in classes, k \in KindLists, t \in {None, Some("t1")} :
            sub = NewSubscription(cls, k, t)
    /\ counter = [mod \in Modules |-> 0]
    /\ subsample \in factors
    /\ msg = None
    /\ err = NoError
    /\ forwarded = FALSE
    /\ delivered = <<>>
    /\ calls = 0
    /\ occurrence = [p \in Modules \X KindNames |-> 0]
    /\ roundAccepted = {}
    /\ roundDelivered = {}
    /\ bundleSeqs = [K \in Modules |-> {}]
    /\ bundle = None
    /\ NoExporter

\* a SynchronizedSubscription as constructed by SynchronizedSubscription.__init__
Init == InitWith({"SynchronizedSubscription"}, {1})

\* a base Subscription as constructed by Subscription.__init__
InitBase == InitWith({"Subscription"}, {1})

\* a subscriber that has not constructed its subscription yet and will ask
\* for the factor `subsample`
InitSubsample ==
    /\ sub = None
    /\ counter = [mod \in Modules |-> 0]
    /\ subsample \in 1..MaxSubsample
    /\ msg = None
    /\ err = NoError
    /\ forwarded = FALSE
    /\ delivered = <<>>
    /\ calls = 0
    /\ occurrence = [p \in Modules \X KindNames |-> 0]
    /\ roundAccepted = {}
    /\ roundDelivered = {}
    /\ bundleSeqs = [K \in Modules |-> {}]
    /\ bundle = None
    /\ NoExporter

\* the subscriber constructs its subscription, passing its subsample factor
\* as the subscribers of the package do (ratio.py:31, variance.py:16,
\* train_accuracy.py:13) or leaving it out; op records the constructor call
Construct(kinds, tag, withFactor) ==
    /\ sub = None
    /\ calls = 0
    /\ LET args == IF withFactor THEN <<"self", kinds, tag, subsample>>
                   ELSE <<"self", kinds, tag>>
           r    == SynchronizedSubscriptionCall(args)
       IN  /\ op' = [name |-> "SynchronizedSubscription", args |-> args]
           /\ err' = r.err
           /\ sub' = IF r.subscription = None THEN sub ELSE r.subscription[1]
    /\ UNCHANGED <<counter, subsample, msg, forwarded, delivered, calls, occurrence,
                   roundAccepted, roundDelivered, bundleSeqs, bundle>>
    /\ UNCHANGED <<exporter, weight, bias, inbox, notified, exported, eerr, ops, ret,
                   raising, autoLabeled>>

\* one call sub(network_data)
Call(m) ==
    /\ sub # None
    /\ calls < MaxCalls
    /\ LET r == Subscription__call__(sub, counter, m)
           acc0 == IF r.opened THEN {} ELSE roundAccepted
           del0 == IF r.opened THEN {} ELSE roundDelivered
           \* the bundle objects the round test (lines 240-241) leaves in the dict
           survivors == IF sub.cls = "SynchronizedSubscription" /\ r.forwarded
                           /\ (sub._current_seq = None \/ sub._current_seq # Some(m.seq))
                        THEN _new_round(sub, m.seq).self._modules
                        ELSE sub._modules
       IN  /\ sub' = r.self
           /\ counter' = r.counter
           /\ err' = r.err
           /\ forwarded' = r.forwarded
           /\ delivered' = r.delivered
           /\ occurrence' = IF kindWanted(sub, m) /\ tagPasses(sub, m)
                            THEN [occurrence EXCEPT ![<<m.module, m.kind>>] = @ + 1]
                            ELSE occurrence
           /\ roundAccepted' = IF r.stored THEN acc0 \cup {<<m.module, m.kind>>} ELSE acc0
           /\ roundDelivered' = del0 \cup {r.delivered[i].module : i \in DOMAIN r.delivered}
           /\ bundleSeqs' = [K \in Modules |->
                  IF indexOf(r.self._modules, K) = 0 THEN {}
                  ELSE (IF indexOf(survivors, K) = 0 THEN {} ELSE bundleSeqs[K])
                       \cup (IF r.stored /\ K = m.module THEN {m.seq} ELSE {})]
    /\ msg' = m
    /\ calls' = calls + 1
    /\ UNCHANGED <<subsample, bundle>>
    /\ UNCHANGED expVars

Next == \E m \in NetworkData : Call(m)

Spec == Init /\ [][Next]_vars

SpecBase == InitBase /\ [][Next]_vars

NextSubsample ==
    \/ \E k \in KindLists, t \in {None, Some("t1")}, withFactor \in BOOLEAN :
            Construct(k, t, withFactor)
    \/ \E m \in NetworkData : Call(m)

SpecSubsample == InitSubsample /\ [][NextSubsample]_vars

\* --------------------------------- a Subscriber that is also called directly

\* the ModuleData objects handed to the subscriber directly: every key with
\* every subset of the kinds received
DirectBundles ==
    {[module |-> mod, data |-> [k \in KindNames |-> IF k \in have THEN Some(1) ELSE None],
      step |-> Some(0), epoch |-> Some(0)] : mod \in Modules, have \in SUBSET KindNames}

\* one call subscriber(b) that does not come from the subscription; msg is None
\* after it and bundle is its argument
SubscriberCall(b) ==
    /\ calls < MaxCalls
    /\ LET c == Subscriber__call__(counter, b)
       IN  /\ counter' = c.counter
           /\ err' = c.err
           /\ delivered' = IF c.err = NoError THEN <<b>> ELSE <<>>
    /\ bundle' = b
    /\ msg' = None
    /\ forwarded' = FALSE
    /\ calls' = calls + 1
    /\ UNCHANGED <<sub, subsample, occurrence, roundAccepted, roundDelivered, bundleSeqs>>
    /\ UNCHANGED expVars

\* the messages come from an Exporter, which tags none (export.py:174)
NextSubscriber ==
    \/ \E m \in {x \in NetworkData : x.tag = None} : Call(m)
    \/ \E b \in DirectBundles : SubscriberCall(b)

SpecSubscriber == Init /\ [][NextSubscriber]_vars

\* ------------------------------------------------- ModuleData driven directly

InitBundle ==
    /\ \E mod \in Modules, k \in KindLists : bundle = ModuleData(mod, IterList(k))
    /\ sub = None
    /\ counter = [mod \in Modules |-> 0]
    /\ subsample = 1
    /\ msg = None
    /\ err = NoError
    /\ forwarded = FALSE
    /\ delivered = <<>>
    /\ calls = 0
    /\ occurrence = [p \in Modules \X KindNames |-> 0]
    /\ roundAccepted = {}
    /\ roundDelivered = {}
    /\ bundleSeqs = [K \in Modules |-> {}]
    /\ NoExporter

\* one call bundle.add_message(message)
AddMessage(m) ==
    /\ calls < MaxCalls
    /\ LET r == add_message(bundle, m)
       IN  /\ bundle' = r.b
           /\ err' = r.err
    /\ msg' = m
    /\ calls' = calls + 1
    /\ UNCHANGED <<sub, counter, subsample, forwarded, delivered, occurrence,
                   roundAccepted, roundDelivered, bundleSeqs>>
    /\ UNCHANGED expVars

NextBundle == \E m \in BundleData : AddMessage(m)

SpecBundle == InitBundle /\ [][NextBundle]_vars

\* ------------------------------------------------------------------ Exporter
\* the subscription objects that can be registered; each records its calls
Subs == {"s1", "s2"}

\* the module objects: two Linear layers (the second built with bias=False)
\* and one ReLU
Mods == {"lin1", "lin2", "relu"}

\* module.__class__.__name__
ClassName(m) == IF m = "relu" THEN "ReLU" ELSE "Linear"
ClassNames == {ClassName(m) : m \in Mods}

\* hasattr(module, 'weight')
hasWeight(m) == m \in {"lin1", "lin2"}

\* hasattr(module, 'bias') and module.bias is not None
hasBias(m) == m = "lin1"

\* tensors are tuples of integers; the tuple's length is the tensor's shape
WeightValues == {<<1, 2>>, <<2, 2>>}
BiasValues == {<<0>>, <<1>>}
Outputs == {<<5>>}

\* what a backward hook is handed as grad_output: a tensor, or a tuple of tensors
GradOutputs == {[tuple |-> FALSE, items |-> <<<<3>>>>],
                [tuple |-> TRUE, items |-> <<<<3>>>>],
                [tuple |-> TRUE, items |-> <<<<3>>, <<3>>>>]}

\* explicit layer names: a free name, and one that reads like a generated label
Format(layer_kind, number) == <<layer_kind, number>>
LayerNames == {<<"enc">>, Format("Linear", 1)}

zeros_likeCopy(t) == t

\* torch.zeros_like
zeros_like(t) == [i \in DOMAIN t |-> 0]

TensorSubReversed(a, b) == [i \in DOMAIN a |-> b[i] - a[i]]

\* tensor subtraction
TensorSub(a, b) == [i \in DOMAIN a |-> a[i] - b[i]]

\* dict assignment d[k] = v
DictSet(d, k, v) == (k :> v) @@ d

\* Exporter.__init__
NewExporter ==
    [_modules |-> <<>>, _frequency |-> 1,
     _layer_counter |-> [c \in ClassNames |-> 0],
     _layer_names |-> <<>>,
     _weight_cache |-> <<>>, _bias_cache |-> <<>>,
     _subscriptions |-> {},
     _activation_counter |-> [m \in Mods |-> 0],
     _gradient_counter |-> [m \in Mods |-> 0],
     _model |-> None,
     _train_step |-> 0, _epoch |-> 0, _global_step |-> 0,
     _is_training |-> TRUE]

\* list.index
ListIndex(l, x) == CHOOSE i \in DOMAIN l : l[i] = x /\ \A j \in DOMAIN l : l[j] = x => i <= j

get_or_make_labelRecompute(E, module) ==
    [E |-> [E EXCEPT !._layer_counter[ClassName(module)] = @ + 1],
     label |-> Format(ClassName(module), E._layer_counter[ClassName(module)])]

\* Exporter.get_or_make_label: the exporter as mutated and the label returned
get_or_make_label(E, module) ==
    LET layer_name == IF module \notin IterList(E._modules)
                      THEN Format(ClassName(module), E._layer_counter[ClassName(module)])
                      ELSE E._layer_names[ListIndex(E._modules, module)]
    IN  [E |-> [E EXCEPT !._layer_counter[ClassName(module)] = @ + 1],
         label |-> layer_name]

_add_moduleAlways(E, name, module) ==
    [E EXCEPT !._layer_names = Append(@, name), !._modules = Append(@, module)]

\* Exporter._add_module
_add_module(E, name, module) ==
    IF module \notin IterList(E._modules)
    THEN [E EXCEPT !._layer_names = Append(@, name), !._modules = Append(@, module)]
    ELSE E

\* Exporter.add_modules for a (name, module) tuple
add_modules_tuple(E, layer_name, module) == _add_module(E, layer_name, module)

\* Exporter.add_modules for a module that is no Sequential
add_modules_module(E, module) ==
    LET r == get_or_make_label(E, module)
    IN  _add_module(r.E, r.label, module)

networkDataSeqFromTrainStep(E, label, kind, data) ==
    [seq |-> E._train_step, tag |-> None, kind |-> kind, module |-> label,
     step |-> E._train_step, epoch |-> E._epoch, payload |-> data]

\* the NetworkData(...) built by Exporter.publish (lines 174-176)
networkData(E, label, kind, data) ==
    [seq |-> E._global_step, tag |-> None, kind |-> kind, module |-> label,
     step |-> E._train_step, epoch |-> E._epoch, payload |-> data]

RECURSIVE publishCatching(_, _, _, _, _, _)
publishCatching(W, order, i, module, kind, data) ==
    IF i > Len(order) THEN W
    ELSE LET r   == get_or_make_label(W.E, module)
             m   == networkData(r.E, r.label, kind, data)
         IN  publishCatching([W EXCEPT !.E = r.E, !.inbox[order[i]] = Append(@, m)],
                             order, i + 1, module, kind, data)

\* Exporter.publish: `order` is the order in which the set _subscriptions is
\* iterated; W holds the exporter, the subscriptions' inboxes and the export log
RECURSIVE publish(_, _, _, _, _, _)
publish(W, order, i, module, kind, data) ==
    IF i > Len(order) THEN W
    ELSE LET r   == get_or_make_label(W.E, module)
             m   == networkData(r.E, r.label, kind, data)
             W1  == [W EXCEPT !.E = r.E, !.inbox[order[i]] = Append(@, m)]
         IN  IF order[i] \in raising
             THEN [W1 EXCEPT !.err = "SubscriptionError"]
             ELSE publish(W1, order, i + 1, module, kind, data)

exportLabelFirst(W, order, kind, module, data) ==
    LET W1 == [W EXCEPT !.exported = Append(@, [kind |-> kind, module |-> module, data |-> data]),
                        !.E = get_or_make_label(@, module).E]
    IN  publish(W1, order, 1, module, kind, data)

\* Exporter.export; it is not reached when an earlier statement of the caller
\* has raised
export(W, order, kind, module, data) ==
    LET W1 == [W EXCEPT !.exported = Append(@, [kind |-> kind, module |-> module, data |-> data])]
    IN  IF W.err # NoError
        THEN W
        ELSE IF Cardinality(W1.E._subscriptions) = 0
        THEN W1
        ELSE publish(W1, order, 1, module, kind, data)

\* the weight branch of Exporter.new_activations (lines 216-222)
exportWeight(W, order, module, w) ==
    LET delta == IF module \in DOMAIN W.E._weight_cache
                 THEN TensorSub(w, W.E._weight_cache[module])
                 ELSE zeros_like(w)
        W1 == export(W, order, "weight_updates", module, delta)
        W2 == export(W1, order, "weights", module, w)
    IN  IF W2.err # NoError THEN W2
        ELSE [W2 EXCEPT !.E._weight_cache = DictSet(@, module, w)]

\* the bias branch of Exporter.new_activations (lines 223-231)
exportBias(W, order, module, b) ==
    LET delta == IF module \in DOMAIN W.E._bias_cache
                 THEN TensorSub(b, W.E._bias_cache[module])
                 ELSE zeros_like(b)
        W1 == export(W, order, "bias_updates", module, delta)
        W2 == export(W1, order, "biases", module, b)
    IN  IF W2.err # NoError THEN W2
        ELSE [W2 EXCEPT !.E._bias_cache = DictSet(@, module, b)]

new_activationsAlways(W, order, module, out_) ==
    LET W1 == [W EXCEPT !.E._activation_counter[module] = @ + 1]
        W2 == IF hasWeight(module) THEN exportWeight(W1, order, module, weight[module]) ELSE W1
        W3 == IF hasBias(module) THEN exportBias(W2, order, module, bias[module]) ELSE W2
    IN  export(W3, order, "activations", module, out_)

\* Exporter.new_activations
new_activations(W, order, module, out_) ==
    IF ~W.E._is_training THEN W
    ELSE LET W1 == [W EXCEPT !.E._activation_counter[module] = @ + 1]
             W2 == IF hasWeight(module) THEN exportWeight(W1, order, module, weight[module]) ELSE W1
             W3 == IF hasBias(module) THEN exportBias(W2, order, module, bias[module]) ELSE W2
         IN  export(W3, order, "activations", module, out_)

\* Exporter.new_gradients
new_gradients(W, order, module, out_) ==
    IF ~W.E._is_training THEN W
    ELSE LET W1 == [W EXCEPT !.E._gradient_counter[module] = @ + 1]
         IN  IF out_.tuple /\ Len(out_.items) > 1
             THEN [W1 EXCEPT !.err = "RuntimeError"]
             ELSE export(W1, order, "gradients", module, out_.items[1])

stepTrainOnly(E) == [E EXCEPT !._train_step = @ + 1]

\* Exporter.step
step(E) == [E EXCEPT !._train_step = @ + 1, !._global_step = @ + 1]

epoch_finishedIncrementFirst(E) ==
    [E |-> [E EXCEPT !._epoch = @ + 1, !._train_step = 0],
     notified |-> [s \in Subs |-> IF s \in E._subscriptions THEN <<E._epoch + 1>> ELSE <<>>]]

\* Exporter.epoch_finished: the exporter as mutated and, per subscription, the
\* epochs its epoch_finished was called with
epoch_finished(E) ==
    [E |-> [E EXCEPT !._epoch = @ + 1, !._train_step = 0],
     notified |-> [s \in Subs |-> IF s \in E._subscriptions THEN <<E._epoch>> ELSE <<>>]]

\* a model object no Exporter was given yet: forward is the number of
\* new_forward_fn wrappers set_model has put around its own forward
Model == [name |-> "model", forward |-> 0]

\* Exporter.set_model: keeps the model and wraps its forward (and its train,
\* the action Train) once more, whatever it was wrapped in before
set_model(E, model) == [E EXCEPT !._model = Some([model EXCEPT !.forward = @ + 1])]

\* the model's own forward: its layers are the tracked modules, called in the
\* order of their registration, each firing its forward hook
RECURSIVE forward(_, _, _, _)
forward(W, order, i, out_) ==
    IF i > Len(W.E._modules) \/ W.err # NoError THEN W
    ELSE forward(new_activations(W, order, W.E._modules[i], out_), order, i + 1, out_)

RECURSIVE new_forward_fn(_, _, _, _)

\* forward_fn(*args) as captured by the n-th set_model call for the model
\* (line 278): model.forward as that call found it, which is the model's own
\* forward for the first call and the new_forward_fn of the call before
\* otherwise
RECURSIVE forward_fn(_, _, _, _)
forward_fn(W, order, n, out_) ==
    IF n <= 1 THEN forward(W, order, 1, out_)
    ELSE new_forward_fn(W, order, n - 1, out_)

\* new_forward_fn of the n-th set_model call for the model (lines 280-283)
new_forward_fn(W, order, n, out_) == forward_fn([W EXCEPT !.E = step(@)], order, n, out_)

\* the orders in which a set can be iterated
Orders(S) == {o \in [1..Cardinality(S) -> S] : \A i, j \in DOMAIN o : o[i] = o[j] => i = j}

\* the exporter with empty per-operation logs
World ==
    [E |-> exporter, inbox |-> [s \in Subs |-> <<>>], exported |-> <<>>, err |-> NoError,
     ret |-> None, auto |-> autoLabeled]

InitExporterWith(handlers) ==
    /\ exporter = NewExporter
    /\ raising \in handlers
    /\ weight = [m \in {x \in Mods : hasWeight(x)} |-> <<1, 2>>]
    /\ bias = [m \in {x \in Mods : hasBias(x)} |-> <<0>>]
    /\ inbox = [s \in Subs |-> <<>>]
    /\ notified = [s \in Subs |-> <<>>]
    /\ exported = <<>>
    /\ op = None
    /\ eerr = NoError
    /\ ops = 0
    /\ ret = None
    /\ autoLabeled = {}
    /\ NoSubscription

\* an Exporter as constructed, none of whose subscriptions raises
InitExporter == InitExporterWith({{}})

\* an Exporter as constructed; any of its subscriptions may be one that raises
InitFanout == InitExporterWith(SUBSET Subs)

\* bookkeeping shared by the Exporter's operations
Operation(name, args, W) ==
    /\ ops < MaxOps
    /\ ops' = ops + 1
    /\ op' = [name |-> name, args |-> args]
    /\ exporter' = W.E
    /\ inbox' = W.inbox
    /\ exported' = W.exported
    /\ eerr' = W.err
    /\ ret' = W.ret
    /\ autoLabeled' = W.auto
    /\ UNCHANGED raising
    /\ UNCHANGED subVars

\* exporter.subscribe(s)
Subscribe(s) ==
    /\ Operation("subscribe", <<s>>, [World EXCEPT !.E._subscriptions = @ \cup {s}])
    /\ notified' = [x \in Subs |-> <<>>]
    /\ UNCHANGED <<weight, bias>>

\* exporter.add_modules((name, m))
AddNamedModule(name, m) ==
    /\ Operation("add_modules", <<name, m>>, [World EXCEPT !.E = add_modules_tuple(@, name, m)])
    /\ notified' = [x \in Subs |-> <<>>]
    /\ UNCHANGED <<weight, bias>>

\* exporter.add_modules(m)
AddModule(m) ==
    /\ Operation("add_modules", <<m>>,
                 [World EXCEPT !.E = add_modules_module(@, m),
                               !.auto = IF m \in IterList(exporter._modules)
                                        THEN @ ELSE @ \cup {m}])
    /\ notified' = [x \in Subs |-> <<>>]
    /\ UNCHANGED <<weight, bias>>

\* exporter.train(mode), which exporter.test(not mode) calls
Train(mode) ==
    /\ Operation("train", <<mode>>, [World EXCEPT !.E._is_training = mode])
    /\ notified' = [x \in Subs |-> <<>>]
    /\ UNCHANGED <<weight, bias>>

\* exporter.step()
Step ==
    /\ Operation("step", <<>>, [World EXCEPT !.E = step(@)])
    /\ notified' = [x \in Subs |-> <<>>]
    /\ UNCHANGED <<weight, bias>>

\* exporter.epoch_finished()
EpochFinished ==
    /\ Operation("epoch_finished", <<>>, [World EXCEPT !.E = epoch_finished(@).E])
    /\ notified' = epoch_finished(exporter).notified
    /\ UNCHANGED <<weight, bias>>

\* the forward hook of a tracked module fires
ForwardHook(m, out_) ==
    /\ m \in IterList(exporter._modules)
    /\ \E order \in Orders(exporter._subscriptions) :
            Operation("new_activations", <<m>>, new_activations(World, order, m, out_))
    /\ notified' = [x \in Subs |-> <<>>]
    /\ UNCHANGED <<weight, bias>>

\* the backward hook of a tracked module fires
BackwardHook(m, out_) ==
    /\ m \in IterList(exporter._modules)
    /\ \E order \in Orders(exporter._subscriptions) :
            Operation("new_gradients", <<m>>, new_gradients(World, order, m, out_))
    /\ notified' = [x \in Subs |-> <<>>]
    /\ UNCHANGED <<weight, bias>>

\* the optimizer updates the parameters of a module
OptimizerStep(m) ==
    /\ hasWeight(m)
    /\ Operation("optimizer", <<m>>, World)
    /\ \E w \in WeightValues : w # weight[m] /\ weight' = [weight EXCEPT ![m] = w]
    /\ \E b \in BiasValues : bias' = IF hasBias(m) THEN [bias EXCEPT ![m] = b] ELSE bias
    /\ notified' = [x \in Subs |-> <<>>]

\* exporter.get_or_make_label(m)
GetLabel(m) ==
    /\ Operation("get_or_make_label", <<m>>,
                 [World EXCEPT !.E = get_or_make_label(@, m).E,
                               !.ret = Some(get_or_make_label(exporter, m).label)])
    /\ notified' = [x \in Subs |-> <<>>]
    /\ UNCHANGED <<weight, bias>>

\* exporter.export(kind, m, data)
Export(kind, m, data) ==
    /\ \E order \in Orders(exporter._subscriptions) :
            Operation("export", <<m>>, export(World, order, kind, m, data))
    /\ notified' = [x \in Subs |-> <<>>]
    /\ UNCHANGED <<weight, bias>>

\* exporter.set_model(model), for a fresh model the first time and for the
\* same model object afterwards
SetModel ==
    /\ Operation("set_model", <<>>,
                 [World EXCEPT !.E = set_model(@, IF exporter._model = None THEN Model
                                                  ELSE exporter._model[1])])
    /\ notified' = [x \in Subs |-> <<>>]
    /\ UNCHANGED <<weight, bias>>

\* model.forward(...) of the model handed to set_model
ModelForward(out_) ==
    /\ exporter._model # None
    /\ \E order \in Orders(exporter._subscriptions) :
            Operation("forward", <<>>,
                      new_forward_fn(World, order, exporter._model[1].forward, out_))
    /\ notified' = [x \in Subs |-> <<>>]
    /\ UNCHANGED <<weight, bias>>

\* the hooks and the snapshots; names that collide with generated labels are
\* registered under SpecLabels
NextExporter ==
    \/ \E s \in Subs : Subscribe(s)
    \/ \E m \in Mods : AddNamedModule(<<"enc">>, m)
    \/ \E m \in Mods : AddModule(m)
    \/ \E mode \in BOOLEAN : Train(mode)
    \/ Step
    \/ EpochFinished
    \/ \E m \in Mods, out_ \in Outputs : ForwardHook(m, out_)
    \/ \E m \in Mods, out_ \in GradOutputs : BackwardHook(m, out_)
    \/ \E m \in Mods : OptimizerStep(m)

SpecExporter == InitExporter /\ [][NextExporter]_vars

\* ------------------------------------------------------------ RatioSubscriber

\* the kinds lists a RatioSubscriber is constructed with
RatioKinds ==
    {<<>>, <<Activations>>, <<Activations, Gradients>>, <<Activations, Gradients, Activations>>}

RatioSubscriber__init__NoCheck(kinds, tag, factor) ==
    IF Len(kinds) < 2
    THEN [err |-> "IndexError", subscription |-> None]
    ELSE SynchronizedSubscriptionCall(<<"self", kinds, tag, factor>>)

\* RatioSubscriber.__init__ up to the construction of its subscription
\* (lines 25-31): the error raised and the subscription created
RatioSubscriber__init__(kinds, tag, factor) ==
    IF Len(kinds) # 2
    THEN [err |-> "ValueError: kinds", subscription |-> None]
    ELSE SynchronizedSubscriptionCall(<<"self", kinds, tag, factor>>)

\* RatioSubscriber(kinds, tag=tag) is constructed next to an Exporter and its
\* subscriptions; sub holds the subscription the constructor created
NewRatio(kinds, tag) ==
    /\ ops < MaxOps
    /\ ops' = ops + 1
    /\ op' = [name |-> "RatioSubscriber", args |-> <<kinds, tag>>]
    /\ LET r == RatioSubscriber__init__(kinds, tag, 1)
       IN  /\ eerr' = r.err
           /\ sub' = IF r.subscription = None THEN sub ELSE r.subscription[1]
    /\ ret' = None
    /\ UNCHANGED <<exporter, weight, bias, inbox, notified, exported, raising, autoLabeled>>
    /\ UNCHANGED <<counter, subsample, msg, err, forwarded, delivered, calls, occurrence,
                   roundAccepted, roundDelivered, bundleSeqs, bundle>>

\* subscribers are constructed while an Exporter publishes to its subscriptions
NextRatio ==
    \/ \E s \in Subs : Subscribe(s)
    \/ \E m \in Mods, data \in Outputs : Export("activations", m, data)
    \/ \E kinds \in RatioKinds, tag \in {None, Some("t1")} : NewRatio(kinds, tag)

SpecRatio == InitExporter /\ [][NextRatio]_vars

\* the fan-out of published messages to subscriptions some of which raise
NextFanout ==
    \/ \E s \in Subs : Subscribe(s)
    \/ \E m \in Mods : AddModule(m)
    \/ Step
    \/ EpochFinished
    \/ \E m \in Mods, data \in Outputs : Export("activations", m, data)
    \/ \E m \in Mods, out_ \in Outputs : ForwardHook(m, out_)

SpecFanout == InitFanout /\ [][NextFanout]_vars

\* the step and epoch counters: the instrumented model's forward pass, the
\* backward hooks, step, epoch_finished, train and direct exports
NextSteps ==
    \/ \E s \in Subs : Subscribe(s)
    \/ \E m \in Mods : AddModule(m)
    \/ SetModel
    \/ \E out_ \in Outputs : ModelForward(out_)
    \/ \E m \in Mods, out_ \in GradOutputs : BackwardHook(m, out_)
    \/ Step
    \/ EpochFinished
    \/ \E mode \in BOOLEAN : Train(mode)
    \/ \E m \in Mods, data \in Outputs : Export("activations", m, data)

SpecSteps == InitExporter /\ [][NextSteps]_vars

\* the label registry: registrations, label lookups and publishes
NextLabels ==
    \/ \E s \in Subs : Subscribe(s)
    \/ \E name \in LayerNames, m \in Mods : AddNamedModule(name, m)
    \/ \E m \in Mods : AddModule(m)
    \/ \E m \in Mods : GetLabel(m)
    \/ \E m \in Mods, data \in Outputs : Export("activations", m, data)

SpecLabels == InitExporter /\ [][NextLabels]_vars

\* ===================================================================== claims

\* the step from one call to the next (msg' is the argument of that call)
IsCall == calls' = calls + 1

\* the last call's message passed the kind and tag filters of __call__
Matching == calls > 0 /\ kindWanted(sub, msg) /\ tagPasses(sub, msg)

\* C1 (Spec): in every state, the subscriber has been invoked for key K in the
\* current round if and only if a message of every expected kind with key K was
\* stored by the subscription since that round was opened.
C1_CompletenessThenDelivery ==
    \A K \in Modules :
        (K \in roundDelivered)
            <=> (\A k \in IterList(sub._kinds) : <<K, k>> \in roundAccepted)

\* C1 witness: a two-kind subscription has delivered the bundle of one key while
\* the other key's bundle is still buffered with one kind missing.
C1_Witness ==
    /\ Len(sub._kinds) = 2
    /\ roundDelivered # {}
    /\ \E K \in Modules : K \notin roundDelivered /\ \E k \in KindNames : <<K, k>> \in roundAccepted

\* C2 (Spec): a message that passes the filters, with a seq different from the
\* current round's, while an incomplete bundle is buffered, makes the call raise
\* the ValueError of _new_round; nothing is discarded and nothing is delivered.
C2_IncompleteRoundAbandonedRaises ==
    [][ ( /\ IsCall
          /\ kindWanted(sub, msg') /\ tagPasses(sub, msg')
          /\ sub._current_seq # None /\ sub._current_seq # Some(msg'.seq)
          /\ \E i \in DOMAIN sub._modules : ~complete(sub._modules[i]) )
        => ( /\ err' = "ValueError: not yet complete"
             /\ sub' = sub
             /\ delivered' = <<>> ) ]_vars

\* C2 witness: the call raised on closing a round that buffers a partial bundle.
C2_Witness ==
    /\ err = "ValueError: not yet complete"
    /\ sub._current_seq # Some(msg.seq)
    /\ \E i \in DOMAIN sub._modules : ~complete(sub._modules[i]) /\ completeAny(sub._modules[i])

\* C3 (SpecBundle): add_message of a message whose kind already holds a payload
\* raises a ValueError and leaves every stored payload as it was; when the
\* message's module, step and epoch are the bundle's, the error is the
\* duplicate-kind one.
C3_DuplicateKindRaises ==
    [][ ( /\ IsCall
          /\ msg'.kind \in DOMAIN bundle.data
          /\ bundle.data[msg'.kind] # None )
        => ( /\ IsValueError(err')
             /\ bundle'.data = bundle.data
             /\ ( ( /\ msg'.module = bundle.module
                    /\ Some(msg'.step) = bundle.step
                    /\ Some(msg'.epoch) = bundle.epoch )
                  => err' = "ValueError: duplicate" ) ) ]_vars

\* C3 witness: a second message of a stored kind, carrying another payload, was
\* refused as a duplicate.
C3_Witness ==
    /\ calls > 1
    /\ err = "ValueError: duplicate"
    /\ bundle.data[msg.kind] # None
    /\ bundle.data[msg.kind] # msg.payload

\* C4 (Spec), as claimed: a message that passes the filters and repeats a
\* (key, kind) already stored in the current round is reported as an error,
\* whether or not the key's bundle is still buffered.
C4_DuplicateInRoundIsError ==
    [][ ( /\ IsCall
          /\ kindWanted(sub, msg') /\ tagPasses(sub, msg')
          /\ sub._current_seq = Some(msg'.seq)
          /\ <<msg'.module, msg'.kind>> \in roundAccepted )
        => err' # NoError ]_vars

\* C5 (SpecBundle), as claimed: once a message has been stored, add_message of a
\* message whose module, step or epoch differs from the first message's raises
\* a ValueError and leaves the bundle as it was.
C5_IdentityMismatchRaises ==
    [][ ( /\ IsCall
          /\ completeAny(bundle)
          /\ \/ msg'.module # bundle.module
             \/ Some(msg'.step) # bundle.step
             \/ Some(msg'.epoch) # bundle.epoch )
        => ( IsValueError(err') /\ bundle' = bundle ) ]_vars

\* C6 (Spec), as claimed: a message that passes the filters with a seq lower
\* than the current round's is reported as an error and opens no round.
C6_SeqRegressionRejected ==
    [][ ( /\ IsCall
          /\ kindWanted(sub, msg') /\ tagPasses(sub, msg')
          /\ sub._current_seq # None
          /\ msg'.seq < sub._current_seq[1] )
        => ( err' # NoError /\ sub'._current_seq = sub._current_seq ) ]_vars

\* C7 (SpecSubsample), as claimed: a subscription constructed with subsample
\* factor N exists, and of the messages that pass its filters exactly
\* occurrences 0, N, 2N, ... of each (key, kind) reach _new_message.
C7_EveryNthForwarded ==
    (op # None /\ Len(op.args) = 4) =>
        /\ sub # None
        /\ Matching =>
              (forwarded <=> ((occurrence[<<msg.module, msg.kind>>] - 1) % subsample = 0))

\* C8 (Spec), as claimed: a message of a wanted kind is dropped by the tag
\* filter only when its tag and the subscription's are both set and differ.
C8_TagDropOnlyWhenBothSetAndDiffer ==
    (calls > 0 /\ kindWanted(sub, msg)) =>
        (forwarded <=> ~(msg.tag # None /\ sub._tag # None /\ msg.tag # sub._tag))

\* C9 (SpecBase), as claimed: every message that passes the filters of a base
\* Subscription is delivered, without error, exactly once, in a complete bundle
\* whose only expected kind is the message's kind.
C9_LoneMessageDelivered ==
    Matching =>
        ( /\ err = NoError
          /\ Len(delivered) = 1
          /\ DOMAIN delivered[1].data = {msg.kind}
          /\ complete(delivered[1]) )

\* the last operation was a forward hook that ran in training mode
ObservedForward == ops > 0 /\ op.name = "new_activations" /\ exporter._is_training

\* the kinds a sequence of export calls or of messages carries, in order
KindsOf(log) == [i \in DOMAIN log |-> log[i].kind]

\* the kinds one training-mode observation of module m is to emit, in order
ObservationKinds(m) ==
    (IF hasWeight(m) THEN <<"weight_updates", "weights">> ELSE <<>>)
        \o (IF hasBias(m) THEN <<"bias_updates", "biases">> ELSE <<>>)
        \o <<"activations">>

\* t is the all-zero tensor of the shape of tensor like
IsZeroOfShape(t, like) == Len(t) = Len(like) /\ \A i \in DOMAIN t : t[i] = 0

\* C10 (SpecExporter): a training-mode observation of a tracked unit exports the
\* updates kind and the value kind of its weight (and of its bias, if it has
\* one) and every registered subscription is called with exactly these
\* messages; at the unit's first training-mode observation the payload of
\* weight_updates (bias_updates) is the all-zero tensor of the weight's
\* (bias's) shape, and the value kinds carry the current weight (bias).
C10_ZeroDeltaOnFirstObservation ==
    ObservedForward =>
        LET m == op.args[1]
            first == exporter._activation_counter[m] = 1
        IN  /\ KindsOf(exported) = ObservationKinds(m)
            /\ \A s \in exporter._subscriptions :
                  /\ KindsOf(inbox[s]) = ObservationKinds(m)
                  /\ \A i \in DOMAIN exported : inbox[s][i].payload = exported[i].data
            /\ \A i \in DOMAIN exported :
                  /\ (first /\ exported[i].kind = "weight_updates")
                        => IsZeroOfShape(exported[i].data, weight[m])
                  /\ (first /\ exported[i].kind = "bias_updates")
                        => IsZeroOfShape(exported[i].data, bias[m])
                  /\ exported[i].kind = "weights" => exported[i].data = weight[m]
                  /\ exported[i].kind = "biases" => exported[i].data = bias[m]

\* C10 witness: the first training-mode observation of the Linear layer with
\* weight and bias, with a subscription registered that received its messages.
C10_Witness ==
    /\ ObservedForward
    /\ op.args[1] = "lin1"
    /\ exporter._activation_counter["lin1"] = 1
    /\ \E s \in exporter._subscriptions :
          /\ Len(inbox[s]) = 5
          /\ inbox[s][1].kind = "weight_updates"
          /\ inbox[s][1].payload = <<0, 0>>

\* an operation named n was made in this step
IsOp(n) == ops' = ops + 1 /\ op'.name = n

\* d is the elementwise difference now - before
IsDifference(d, now, before) ==
    Len(d) = Len(now) /\ \A i \in DOMAIN d : d[i] = now[i] - before[i]

\* C11 (SpecExporter): at a training-mode observation of a unit with a weight
\* the weight snapshot of that unit becomes the current weight and no other
\* snapshot changes; if the unit was observed before, the first export of the
\* observation is weight_updates with payload current weight minus the
\* snapshot, and every registered subscription receives that payload.  An
\* evaluation-mode observation, and every operation that is no observation,
\* leaves the weight snapshots as they are.
C11_WeightDeltaAgainstSnapshot ==
    [][ /\ (IsOp("new_activations") /\ exporter._is_training /\ hasWeight(op'.args[1])) =>
              LET m == op'.args[1]
                  cache == exporter._weight_cache
              IN  /\ m \in DOMAIN exporter'._weight_cache
                  /\ exporter'._weight_cache[m] = weight[m]
                  /\ \A x \in DOMAIN cache \ {m} :
                        /\ x \in DOMAIN exporter'._weight_cache
                        /\ exporter'._weight_cache[x] = cache[x]
                  /\ m \in DOMAIN cache =>
                        /\ exported'[1].kind = "weight_updates"
                        /\ IsDifference(exported'[1].data, weight[m], cache[m])
                        /\ \A s \in exporter._subscriptions :
                              /\ inbox'[s][1].kind = "weight_updates"
                              /\ inbox'[s][1].payload = exported'[1].data
        /\ (IsOp("new_activations") /\ ~exporter._is_training) =>
              exporter'._weight_cache = exporter._weight_cache
        /\ ~IsOp("new_activations") => exporter'._weight_cache = exporter._weight_cache
      ]_vars

\* C11 witness: the Linear layer is observed, its weight goes from (1, 2) to
\* (2, 2), and at its second observation a subscription receives the
\* weight_updates payload (1, 0).
C11_Witness ==
    /\ ObservedForward
    /\ op.args[1] = "lin1"
    /\ exporter._activation_counter["lin1"] = 2
    /\ weight["lin1"] = <<2, 2>>
    /\ exporter._weight_cache["lin1"] = <<2, 2>>
    /\ \E s \in exporter._subscriptions :
          /\ inbox[s][1].kind = "weight_updates"
          /\ inbox[s][1].payload = <<1, 0>>

\* the label the registry holds for the registered module m
StoredLabel(E, m) == E._layer_names[ListIndex(E._modules, m)]

Registered(E) == IterList(E._modules)

\* C12 (SpecLabels): no operation changes or removes an entry of the registry
\* (a registered unit keeps its position and its label), a call of
\* get_or_make_label for a registered unit returns the label the registry
\* holds for it, and every message published for a registered unit carries
\* that label.
C12_LabelStableOnceRegistered ==
    [][ /\ Len(exporter'._modules) >= Len(exporter._modules)
        /\ Len(exporter'._layer_names) = Len(exporter'._modules)
        /\ \A i \in DOMAIN exporter._modules :
              /\ exporter'._modules[i] = exporter._modules[i]
              /\ exporter'._layer_names[i] = exporter._layer_names[i]
        /\ (IsOp("get_or_make_label") /\ op'.args[1] \in Registered(exporter)) =>
              ret' = Some(StoredLabel(exporter, op'.args[1]))
        /\ (IsOp("export") /\ op'.args[1] \in Registered(exporter)) =>
              \A s \in Subs : \A i \in DOMAIN inbox'[s] :
                  inbox'[s][i].module = StoredLabel(exporter, op'.args[1])
      ]_vars

\* C12 witness: with two units registered, a label lookup of the first one,
\* after at least two other label computations for its class, returns the
\* label it was registered under.
C12_Witness ==
    /\ ops > 0
    /\ op.name = "get_or_make_label"
    /\ Len(exporter._modules) = 2
    /\ op.args[1] = exporter._modules[1]
    /\ exporter._layer_counter[ClassName(op.args[1])] >= 3
    /\ ret = Some(exporter._layer_names[1])

\* C13 (SpecLabels): the registration of a unit that is not yet registered
\* stores, when a name is given, exactly that name, and otherwise the label
\* "{kind}-{n}" with n the number of units of that kind that were auto-labeled
\* before it, whatever registrations, label lookups and publishes came earlier.
C13_AutoLabelCountsAutoLabeledUnits ==
    [][ (IsOp("add_modules") /\ op'.args[Len(op'.args)] \notin Registered(exporter)) =>
            LET m == op'.args[Len(op'.args)]
                n == Cardinality({x \in autoLabeled : ClassName(x) = ClassName(m)})
            IN  /\ m \in Registered(exporter')
                /\ StoredLabel(exporter', m) =
                      IF Len(op'.args) = 2 THEN op'.args[1] ELSE Format(ClassName(m), n)
      ]_vars

\* C14 (SpecSteps): with no subscription registered an export call changes
\* nothing of the Exporter (step and epoch counters, registry and label
\* counters among the rest), calls no subscription and raises nothing; the
\* exports of a hook or of a forward pass likewise reach no subscription and
\* leave the registry, the label counters and the epoch as they are.
C14_ExportWithoutSubscriptionsIsNoOp ==
    [][ exporter._subscriptions = {} =>
          /\ IsOp("export") =>
                /\ exporter' = exporter
                /\ eerr' = NoError
                /\ \A s \in Subs : inbox'[s] = <<>> /\ notified'[s] = <<>>
          /\ (IsOp("new_gradients") \/ IsOp("forward")) =>
                /\ \A s \in Subs : inbox'[s] = <<>>
                /\ exporter'._layer_counter = exporter._layer_counter
                /\ exporter'._modules = exporter._modules
                /\ exporter'._layer_names = exporter._layer_names
                /\ exporter'._epoch = exporter._epoch
          /\ IsOp("new_gradients") =>
                /\ exporter'._train_step = exporter._train_step
                /\ exporter'._global_step = exporter._global_step
      ]_vars

\* C14 witness: an export call for a registered unit on an Exporter without
\* subscriptions, after a step, left every subscription uncalled and the
\* label counter of the unit's class at its value after the registration.
C14_Witness ==
    /\ ops > 0
    /\ op.name = "export"
    /\ exporter._subscriptions = {}
    /\ op.args[1] \in Registered(exporter)
    /\ Len(exported) = 1
    /\ exporter._global_step = 1
    /\ exporter._layer_counter[ClassName(op.args[1])] = 1
    /\ \A s \in Subs : inbox[s] = <<>>

\* an operation that publishes was made in this step
IsPublishingOp == IsOp("export") \/ IsOp("new_gradients") \/ IsOp("new_activations") \/ IsOp("forward")

\* C15 (SpecSteps): every export made by an operation calls each registered
\* subscription exactly once and no other subscription, in the order of the
\* exports, and all the messages carry the kind and payload exported, as seq
\* the Exporter's global_step, as step its train_step and its epoch.
C15_PublishReachesEverySubscriptionOnce ==
    [][ IsPublishingOp =>
          /\ \A s \in Subs \ exporter._subscriptions : inbox'[s] = <<>>
          /\ \A s \in exporter._subscriptions :
                /\ Len(inbox'[s]) = Len(exported')
                /\ \A i \in DOMAIN exported' :
                      /\ inbox'[s][i].kind = exported'[i].kind
                      /\ inbox'[s][i].payload = exported'[i].data
                      /\ inbox'[s][i].seq = exporter'._global_step
                      /\ inbox'[s][i].step = exporter'._train_step
                      /\ inbox'[s][i].epoch = exporter'._epoch
          /\ IsOp("export") => Len(exported') = 1
      ]_vars

\* C15 witness: after a step and a finished epoch one export call reached both
\* registered subscriptions once, with seq 1, step 0 and epoch 1.
C15_Witness ==
    /\ ops > 0
    /\ op.name = "export"
    /\ exporter._subscriptions = Subs
    /\ \A s \in Subs :
          /\ Len(inbox[s]) = 1
          /\ inbox[s][1].seq = 1
          /\ inbox[s][1].step = 0
          /\ inbox[s][1].epoch = 1

\* the seq values of the messages the subscriptions received from the last operation
SeqsOf(box) == UNION {{box[s][i].seq : i \in DOMAIN box[s]} : s \in Subs}

\* C16 (SpecSteps): step() increases train_step and global_step by one and
\* leaves the epoch; no operation but step() and the forward pass of the
\* instrumented model, which calls step() once per set_model call made for
\* the model and before the forward hooks, changes global_step.  The messages
\* of a forward pass all carry the stepped global_step as seq (the old one
\* plus one when set_model was called once), which is above the seq of every
\* message published before (each of which carried the global_step of its
\* time), and the messages of a backward hook that follows the forward pass
\* carry that same seq.
C16_StepAndSeqPerIteration ==
    [][ /\ IsOp("step") =>
              /\ exporter'._train_step = exporter._train_step + 1
              /\ exporter'._global_step = exporter._global_step + 1
              /\ exporter'._epoch = exporter._epoch
        /\ (ops' = ops + 1 /\ ~IsOp("step") /\ ~IsOp("forward")) =>
              exporter'._global_step = exporter._global_step
        /\ \A q \in SeqsOf(inbox) : q <= exporter._global_step
        /\ IsOp("forward") =>
              /\ exporter'._global_step = exporter._global_step + exporter._model[1].forward
              /\ exporter'._train_step = exporter._train_step + exporter._model[1].forward
              /\ exporter._model[1].forward >= 1
              /\ SeqsOf(inbox') \subseteq {exporter'._global_step}
              /\ \A q \in SeqsOf(inbox), r \in SeqsOf(inbox') : q < r
        /\ (ops > 0 /\ op.name = "forward" /\ IsOp("new_gradients")) =>
              /\ SeqsOf(inbox') \subseteq {exporter._global_step}
              /\ SeqsOf(inbox) # {} => SeqsOf(inbox') \subseteq SeqsOf(inbox)
      ]_vars

\* C16 witness: the backward hook of a unit, after one forward pass of the
\* instrumented model observed the unit, published with seq 1, the
\* global_step the forward pass stepped to.
C16_Witness ==
    /\ ops > 0
    /\ op.name = "new_gradients"
    /\ exporter._model # None
    /\ exporter._model[1].forward = 1
    /\ exporter._global_step = 1
    /\ exporter._activation_counter[op.args[1]] = 1
    /\ exporter._gradient_counter[op.args[1]] = 1
    /\ \E s \in exporter._subscriptions : Len(inbox[s]) = 1 /\ inbox[s][1].seq = 1

\* C17 (SpecSteps): epoch_finished() calls epoch_finished of every registered
\* subscription exactly once, with the epoch before the increment, and of no
\* other; it then has increased the epoch by one, set train_step to 0 and
\* left global_step.  No other operation changes the epoch or notifies a
\* subscription of a finished epoch.
C17_EpochFinishedNotifiesThenIncrements ==
    [][ /\ IsOp("epoch_finished") =>
              /\ \A s \in exporter._subscriptions : notified'[s] = <<exporter._epoch>>
              /\ \A s \in Subs \ exporter._subscriptions : notified'[s] = <<>>
              /\ exporter'._epoch = exporter._epoch + 1
              /\ exporter'._train_step = 0
              /\ exporter'._global_step = exporter._global_step
              /\ exporter'._subscriptions = exporter._subscriptions
        /\ (ops' = ops + 1 /\ ~IsOp("epoch_finished")) =>
              /\ exporter'._epoch = exporter._epoch
              /\ \A s \in Subs : notified'[s] = <<>>
      ]_vars

\* C17 witness: the second epoch_finished(), with both subscriptions
\* registered and one step made in the first epoch, notified both with epoch 1
\* and left epoch 2, train_step 0 and global_step 1.
C17_Witness ==
    /\ ops > 0
    /\ op.name = "epoch_finished"
    /\ exporter._subscriptions = Subs
    /\ \A s \in Subs : notified[s] = <<1>>
    /\ exporter._epoch = 2
    /\ exporter._train_step = 0
    /\ exporter._global_step = 1

IsHook == IsOp("new_activations") \/ IsOp("new_gradients")

\* C18 (SpecExporter): train(mode) sets the training flag to mode and nothing
\* else sets it.  A forward or backward hook that fires in evaluation mode
\* exports nothing, calls no subscription and leaves the whole Exporter
\* (snapshots, activation and gradient counters) as it is; a hook that fires
\* in training mode counts the observation, and a forward hook then calls
\* every registered subscription.
C18_EvaluationModeHooksAreSilent ==
    [][ /\ IsOp("train") => exporter'._is_training = op'.args[1]
        /\ (ops' = ops + 1 /\ ~IsOp("train")) => exporter'._is_training = exporter._is_training
        /\ (IsHook /\ ~exporter._is_training) =>
              /\ exporter' = exporter
              /\ exported' = <<>>
              /\ eerr' = NoError
              /\ \A s \in Subs : inbox'[s] = <<>>
        /\ (IsOp("new_activations") /\ exporter._is_training) =>
              /\ exporter'._activation_counter[op'.args[1]]
                    = exporter._activation_counter[op'.args[1]] + 1
              /\ \A s \in exporter._subscriptions : inbox'[s] # <<>>
        /\ (IsOp("new_gradients") /\ exporter._is_training) =>
              exporter'._gradient_counter[op'.args[1]]
                    = exporter._gradient_counter[op'.args[1]] + 1
      ]_vars

\* C18 witness: the forward hook of the Linear layer, observed once in
\* training mode, fired in evaluation mode with a subscription registered:
\* nothing was exported and the counter stayed at one.
C18_Witness ==
    /\ ops > 0
    /\ op.name = "new_activations"
    /\ op.args[1] = "lin1"
    /\ ~exporter._is_training
    /\ exporter._subscriptions # {}
    /\ exporter._activation_counter["lin1"] = 1
    /\ "lin1" \in DOMAIN exporter._weight_cache
    /\ exported = <<>>
    /\ \A s \in Subs : inbox[s] = <<>>

\* C19 (SpecSteps): global_step never decreases; a forward pass of the
\* instrumented model advances global_step and train_step by one when the
\* Exporter is in training mode and leaves both when it is in evaluation mode.
C19_EvaluationForwardDoesNotStep ==
    [][ /\ exporter'._global_step >= exporter._global_step
        /\ (IsOp("forward") /\ exporter._is_training) =>
              /\ exporter'._global_step = exporter._global_step + 1
              /\ exporter'._train_step = exporter._train_step + 1
        /\ (IsOp("forward") /\ ~exporter._is_training) =>
              /\ exporter'._global_step = exporter._global_step
              /\ exporter'._train_step = exporter._train_step
      ]_vars

\* the subscription expects activations and gradients and no gradients message
\* has reached its handler
GradientsNeverSeen ==
    /\ sub._kinds = <<Activations, Gradients>>
    /\ \A mod \in Modules : occurrence[<<mod, Gradients>>] = 0

\* C20 as stated (Spec): a synchronized subscription expecting a kind that never
\* arrives never invokes its subscriber, and handling the kinds that do arrive
\* never raises the incomplete-round error.
C20_MissingKindIsNotAHardFailure ==
    GradientsNeverSeen =>
        /\ \A mod \in Modules : counter[mod] = 0
        /\ delivered = <<>>
        /\ err # "ValueError: not yet complete"

\* C20 amended (Spec): a synchronized subscription expecting a kind that never
\* arrives never invokes its subscriber and every bundle it buffers stays
\* incomplete; a call whose message passes the filters and carries another seq
\* than the round the subscription is in raises the incomplete-round
\* ValueError and leaves the subscription in that round, and no other call
\* raises that error.
C20_MissingKindBlocksAtRoundClose ==
    [][ (IsCall /\ GradientsNeverSeen') =>
          LET closes == /\ kindWanted(sub, msg') /\ tagPasses(sub, msg')
                        /\ sub._current_seq # None
                        /\ sub._current_seq # Some(msg'.seq)
          IN  /\ \A mod \in Modules : counter'[mod] = 0
              /\ delivered' = <<>>
              /\ \A i \in DOMAIN sub'._modules : ~complete(sub'._modules[i])
              /\ closes => (err' = "ValueError: not yet complete" /\ sub' = sub)
              /\ ~closes => err' # "ValueError: not yet complete"
      ]_vars

\* C20 witness: only activations messages arrived at a two-kind subscription,
\* the second in a new round; the call raised and the subscriber was never
\* invoked.
C20_Witness ==
    /\ GradientsNeverSeen
    /\ calls >= 2
    /\ msg.kind = Activations
    /\ \E mod \in Modules : occurrence[<<mod, Activations>>] >= 2
    /\ err = "ValueError: not yet complete"
    /\ \A mod \in Modules : counter[mod] = 0

\* bundle b holds a payload for every kind of its record
HoldsEveryKind(b) == \A k \in DOMAIN b.data : b.data[k] # None

\* C21 (SpecSubscriber): a direct call of the subscriber with a bundle that
\* lacks a kind raises the not-complete ValueError and leaves every counter; a
\* direct call with a complete bundle adds one to the counter of the bundle's
\* key.  A call made through the SynchronizedSubscription never raises that
\* error, every bundle it hands to the subscriber holds every expected kind,
\* and the counter of each key grows by the number of bundles delivered for
\* that key.
C21_SubscriberChecksCompleteness ==
    [][ IsCall =>
          /\ (msg' = None /\ ~HoldsEveryKind(bundle')) =>
                /\ err' = "ValueError: not complete"
                /\ counter' = counter
                /\ delivered' = <<>>
          /\ (msg' = None /\ HoldsEveryKind(bundle')) =>
                /\ err' = NoError
                /\ counter' = [counter EXCEPT ![bundle'.module] = @ + 1]
          /\ msg' # None =>
                /\ err' # "ValueError: not complete"
                /\ \A i \in DOMAIN delivered' :
                      /\ HoldsEveryKind(delivered'[i])
                      /\ DOMAIN delivered'[i].data = IterList(sub._kinds)
                /\ \A key \in Modules :
                      counter'[key] = counter[key]
                          + Cardinality({i \in DOMAIN delivered' : delivered'[i].module = key})
      ]_vars

\* C21 witness: after the subscription delivered a bundle for a key, a direct
\* call with an incomplete bundle of that key raised and the counter is still 1.
C21_Witness ==
    /\ calls >= 2
    /\ msg = None
    /\ ~HoldsEveryKind(bundle)
    /\ err = "ValueError: not complete"
    /\ counter[bundle.module] = 1

\* C22 (SpecRatio): the construction of a RatioSubscriber with a kinds list of
\* another length than 2 raises the kinds ValueError, creates no subscription
\* and leaves the Exporter, its registered subscriptions and what they
\* received as they are.
C22_RatioNeedsTwoKinds ==
    [][ (IsOp("RatioSubscriber") /\ Len(op'.args[1]) # 2) =>
          /\ eerr' = "ValueError: kinds"
          /\ sub' = sub
          /\ sub' = None
          /\ exporter' = exporter
          /\ inbox' = inbox
          /\ notified' = notified
          /\ counter' = counter
      ]_vars

\* C22 witness: a RatioSubscriber was constructed with three kinds while a
\* subscription registered with the Exporter held a message; the constructor
\* raised and that subscription still holds its message.
C22_Witness ==
    /\ ops > 0
    /\ op.name = "RatioSubscriber"
    /\ Len(op.args[1]) = 3
    /\ eerr = "ValueError: kinds"
    /\ sub = None
    /\ \E s \in exporter._subscriptions : Len(inbox[s]) = 1

\* the bundle buffered for key K, None if there is none
Buffered(self, K) ==
    IF \E i \in DOMAIN self._modules : self._modules[i].module = K
    THEN Some(self._modules[CHOOSE i \in DOMAIN self._modules : self._modules[i].module = K])
    ELSE None

\* message m, handled by subscription self, supplies the last kind its key's
\* bundle misses in the round of m
SuppliesLastKind(self, m) ==
    LET old == IF self._current_seq = Some(m.seq) THEN Buffered(self, m.module) ELSE None
    IN  \A k \in IterList(self._kinds) \ {m.kind} : old # None /\ old[1].data[k] # None

\* C23 (Spec): a call that handles its message without error and supplies the
\* last missing kind of its key's bundle hands the subscriber exactly that
\* bundle, once, with the message's payload and the payloads buffered before
\* for every other expected kind; on return the key has no bundle in the
\* buffer and the bundles of the other keys are buffered as before.  No other
\* call delivers anything, and no call that returns without error leaves a
\* complete bundle in the buffer.
C23_CompleteBundleDeliveredOnceAndRemoved ==
    [][ IsCall =>
          LET K == msg'.module
              handled == forwarded' /\ err' = NoError
              old == Buffered(sub, K)
          IN  /\ (handled /\ SuppliesLastKind(sub, msg')) =>
                    /\ Len(delivered') = 1
                    /\ delivered'[1].module = K
                    /\ DOMAIN delivered'[1].data = IterList(sub._kinds)
                    /\ delivered'[1].data[msg'.kind] = msg'.payload
                    /\ \A k \in IterList(sub._kinds) \ {msg'.kind} :
                          delivered'[1].data[k] = old[1].data[k] /\ old[1].data[k] # None
                    /\ Buffered(sub', K) = None
                    /\ \A K2 \in Modules \ {K} :
                          sub._current_seq = Some(msg'.seq) => Buffered(sub', K2) = Buffered(sub, K2)
              /\ ~(handled /\ SuppliesLastKind(sub, msg')) => delivered' = <<>>
              /\ err' = NoError =>
                    \A i \in DOMAIN sub'._modules :
                        \E k \in DOMAIN sub'._modules[i].data : sub'._modules[i].data[k] = None
      ]_vars

\* C23 witness: the call that supplied the gradients of key L1 delivered L1's
\* two-kind bundle and removed it while the bundle of L2, still missing a
\* kind, stays buffered.
C23_Witness ==
    /\ calls = 3
    /\ sub._kinds = <<Activations, Gradients>>
    /\ msg.module = "L1" /\ msg.kind = Gradients
    /\ Len(delivered) = 1
    /\ delivered[1].module = "L1"
    /\ delivered[1].data[Activations] # None /\ delivered[1].data[Gradients] # None
    /\ Buffered(sub, "L1") = None
    /\ Buffered(sub, "L2") # None

\* the keys for which every expected kind was stored since the round was opened
CompletedKeys(self, accepted) ==
    {K \in Modules : \A k \in IterList(self._kinds) : <<K, k>> \in accepted}

\* C24 (Spec): a call delivers at most one bundle, and only for the key of its
\* message; a key that became complete by this call (every expected kind
\* stored in the round now, and not before) is delivered by this very call,
\* and a key complete before was delivered before.  So within a round the
\* keys are delivered in the order in which their last kind was handled.
C24_DeliveryInCompletionOrder ==
    [][ IsCall =>
          LET before == IF sub'._current_seq = sub._current_seq
                        THEN CompletedKeys(sub, roundAccepted) ELSE {}
              now    == CompletedKeys(sub', roundAccepted')
              keys   == {delivered'[i].module : i \in DOMAIN delivered'}
          IN  /\ Len(delivered') <= 1
              /\ keys \subseteq {msg'.module}
              /\ (now \ before) \subseteq keys
              /\ before \subseteq roundDelivered
              /\ now \subseteq roundDelivered'
      ]_vars

\* C24 witness: in one round of a two-kind subscription the activations came
\* for L1 and then for L2, the gradients for L2 first: L2 was delivered by that
\* call while L1, begun earlier, is still buffered.
C24_Witness ==
    /\ calls = 3
    /\ sub._kinds = <<Activations, Gradients>>
    /\ Len(sub._modules) = 1
    /\ sub._modules[1].module = "L1"
    /\ msg.module = "L2" /\ msg.kind = Gradients
    /\ roundDelivered = {"L2"}
    /\ Len(delivered) = 1 /\ delivered[1].module = "L2"

\* C25 (Spec): a call whose message the kind filter or the tag filter drops
\* raises nothing, does not invoke the subscriber and leaves the subscription
\* (current round seq, buffer and all) as it was, also when the message
\* carries another seq than the current round's while incomplete bundles are
\* buffered.
C25_DroppedMessageChangesNothing ==
    [][ (IsCall /\ (~kindWanted(sub, msg') \/ ~tagPasses(sub, msg'))) =>
          /\ err' = NoError
          /\ sub' = sub
          /\ counter' = counter
          /\ delivered' = <<>>
          /\ ~forwarded'
      ]_vars

\* C25 witness: a message of another seq than the current round's was dropped
\* while an incomplete bundle is buffered; no error, and the round is the old
\* one.
C25_Witness ==
    /\ calls >= 2
    /\ ~forwarded
    /\ ~kindWanted(sub, msg) \/ ~tagPasses(sub, msg)
    /\ sub._current_seq # None
    /\ sub._current_seq # Some(msg.seq)
    /\ \E i \in DOMAIN sub._modules : ~HoldsEveryKind(sub._modules[i])
    /\ err = NoError

\* C26 (SpecFanout): an export, or the first export of a forward hook, made
\* while a subscription that raises is registered ends with that
\* subscription's error; global_step, train_step and epoch are as before;
\* exactly one raising subscription was called, once, every other registered
\* subscription was called at most once (those visited before the error) with
\* the message exported, and nothing was exported after the error.  With no
\* raising subscription registered the operation raises nothing.
C26_SubscriptionErrorPropagates ==
    [][ (IsOp("export") \/ IsOp("new_activations")) =>
          LET registered == exporter._subscriptions
              called == {s \in Subs : inbox'[s] # <<>>}
          IN  /\ exporter'._global_step = exporter._global_step
              /\ exporter'._train_step = exporter._train_step
              /\ exporter'._epoch = exporter._epoch
              /\ registered \cap raising = {} => eerr' = NoError
              /\ registered \cap raising # {} =>
                    /\ eerr' = "SubscriptionError"
                    /\ Len(exported') = 1
                    /\ Cardinality(called \cap raising) = 1
                    /\ called \subseteq registered
                    /\ \A s \in called :
                          /\ Len(inbox'[s]) = 1
                          /\ inbox'[s][1].kind = exported'[1].kind
                          /\ inbox'[s][1].payload = exported'[1].data
      ]_vars

\* C26 witness: with a raising and a well-behaved subscription registered, an
\* export after one step ended with the error before the well-behaved one
\* was visited; global_step is still 1.
C26_Witness ==
    /\ ops > 0
    /\ op.name = "export"
    /\ eerr = "SubscriptionError"
    /\ exporter._subscriptions = Subs
    /\ exporter._global_step = 1
    /\ \E r \in raising, s \in Subs \ raising : Len(inbox[r]) = 1 /\ inbox[s] = <<>>

\* C27 (Spec): a call that fails at the round close leaves the subscription
\* object, buffer and round seq included, and the subscriber's counters
\* exactly as they were and delivers nothing.  The call after such a failure,
\* if its message passes the filters, carries the seq of the round still
\* open, agrees with the step of its key's bundle and supplies the last kind
\* that bundle misses, returns without error and delivers the completed
\* bundle.
C27_FailedRoundCloseChangesNothing ==
    [][ IsCall =>
          /\ err' = "ValueError: not yet complete" =>
                /\ sub' = sub
                /\ counter' = counter
                /\ delivered' = <<>>
          /\ ( /\ err = "ValueError: not yet complete"
               /\ kindWanted(sub, msg') /\ tagPasses(sub, msg')
               /\ sub._current_seq = Some(msg'.seq)
               /\ SuppliesLastKind(sub, msg')
               /\ Buffered(sub, msg'.module) # None
               /\ Buffered(sub, msg'.module)[1].data[msg'.kind] = None
               /\ Buffered(sub, msg'.module)[1].step \in {None, Some(0), Some(msg'.step)} )
              => ( /\ err' = NoError
                   /\ Len(delivered') = 1
                   /\ delivered'[1].module = msg'.module
                   /\ HoldsEveryKind(delivered'[1])
                   /\ counter'[msg'.module] = counter[msg'.module] + 1 )
      ]_vars

\* C27 witness: the activations of L1 opened a round, the activations of L2
\* failed to close it (they are not buffered), and the gradients of L1 in the
\* old round completed and delivered L1's bundle.
C27_Witness ==
    /\ calls = 3
    /\ sub._kinds = <<Activations, Gradients>>
    /\ occurrence[<<"L1", Activations>>] = 1
    /\ occurrence[<<"L2", Activations>>] = 1
    /\ occurrence[<<"L1", Gradients>>] = 1
    /\ msg.module = "L1" /\ msg.kind = Gradients
    /\ sub._current_seq = Some(msg.seq)
    /\ Buffered(sub, "L2") = None
    /\ Len(delivered) = 1
    /\ delivered[1].module = "L1"
    /\ counter["L1"] = 1

\* C28 (Spec): after a call of the SynchronizedSubscription that returned
\* without error, every bundle left in the round buffer misses a kind, holds
\* at least one kind, has a key no other buffered bundle has, and received
\* only messages whose seq is the subscription's current round seq; a key
\* without a buffered bundle has no such message.  While no round has been
\* opened the buffer is empty, whatever the last call raised.
C28_RoundBufferInvariants ==
    /\ sub._current_seq = None => sub._modules = <<>>
    /\ (calls > 0 /\ err = NoError) =>
          /\ \A i \in DOMAIN sub._modules :
                LET b == sub._modules[i]
                IN  /\ \E k \in DOMAIN b.data : b.data[k] = None
                    /\ \E k \in DOMAIN b.data : b.data[k] # None
                    /\ \A j \in DOMAIN sub._modules : j # i => sub._modules[j].module # b.module
                    /\ DOMAIN b.data = IterList(sub._kinds)
                    /\ bundleSeqs[b.module] # {}
                    /\ \A q \in bundleSeqs[b.module] : sub._current_seq = Some(q)
          /\ \A K \in Modules : Buffered(sub, K) = None => bundleSeqs[K] = {}

\* the third call returned without error in the round of seq 2 and left two
\* bundles in the buffer, each of which received one message of that round
C28_Witness ==
    /\ calls = 3 /\ err = NoError
    /\ sub._current_seq = Some(2)
    /\ Len(sub._modules) = 2
    /\ \A K \in Modules : bundleSeqs[K] = {2}
    /\ delivered = <<>>

\* the registry of Exporter E: as many labels as modules, no module twice, and
\* no two auto-labeled modules of one class under the same label
RegistryWellFormed(E, auto) ==
    /\ Len(E._modules) = Len(E._layer_names)
    /\ \A i, j \in DOMAIN E._modules : E._modules[i] = E._modules[j] => i = j
    /\ auto \subseteq Registered(E)
    /\ \A x, y \in auto :
          (x # y /\ ClassName(x) = ClassName(y)) => StoredLabel(E, x) # StoredLabel(E, y)

\* C29 (SpecLabels): after every operation the module list and the label list
\* of the Exporter have the same length, no module is listed twice, and two
\* distinct modules of one class that were registered under a made label have
\* different labels; add_modules for a module that is already registered,
\* with a name or without one, leaves both lists as they are; every message
\* of an export for a registered module has the module's stored label as key.
C29_RegistryWellFormedAndLabelsFixed ==
    [][ /\ RegistryWellFormed(exporter', autoLabeled')
        /\ (IsOp("add_modules") /\ op'.args[Len(op'.args)] \in Registered(exporter)) =>
              /\ exporter'._modules = exporter._modules
              /\ exporter'._layer_names = exporter._layer_names
              /\ autoLabeled' = autoLabeled
        /\ (IsOp("export") /\ op'.args[1] \in Registered(exporter')) =>
              /\ exporter'._modules = exporter._modules
              /\ exporter'._layer_names = exporter._layer_names
              /\ \A s \in exporter._subscriptions :
                    /\ Len(inbox'[s]) = 1
                    /\ inbox'[s][1].module = StoredLabel(exporter', op'.args[1])
      ]_vars

\* C29 witness: with both Linear modules registered under made labels, which
\* differ, add_modules was called with a name for one of them and the registry
\* still holds the made label for it.
C29_Witness ==
    /\ ops > 0
    /\ op.name = "add_modules"
    /\ Len(op.args) = 2
    /\ autoLabeled = {"lin1", "lin2"}
    /\ Len(exporter._modules) = 2
    /\ op.args[2] \in Registered(exporter)
    /\ StoredLabel(exporter, op.args[2]) # op.args[1]
    /\ StoredLabel(exporter, "lin1") # StoredLabel(exporter, "lin2")

====
